---- MODULE Spec2Model ----
(***************************************************************************)
(* Model of the clause classification pipeline of jserva90/classifier:     *)
(*   core.classify_clauses -> api_classification.classify_with_openai      *)
(*   (split_into_clauses, model call, response interpretation, confidence  *)
(*   calibration, generate_document_summary).                              *)
(* Spec is one call of classify_clauses.  TextSpec, SummarySpec and        *)
(* PromptSpec are one call of clean_text / split_into_clauses, of          *)
(* generate_document_summary and of create_classification_prompt on their  *)
(* own; PdfSpec is one call of pdf_extraction.extract_text_from_pdf.       *)
(*                                                                         *)
(* Texts are sequences of one-character strings.  A raw model response is  *)
(* a sequence of lexemes (punctuation, quoted strings, number-like         *)
(* lexemes, bare words, whitespace); json.loads and the fallback regex of  *)
(* classify_with_openai are modelled as a parser and a matcher over those  *)
(* lexemes.  Confidences are fixed-point integers in units of 1/Scale.     *)
(***************************************************************************)
EXTENDS Integers, Sequences, FiniteSets, TLC

(***************************************************************************)
(* Python values (the result of json.loads, and the records the code       *)
(* builds).  Every value is a record of the same shape:                    *)
(*   t : the type tag, n : a number in units of 1/Scale (or 0/1 for bool), *)
(*   s : a string literal, c : characters taken from the input text        *)
(*   (a str is the literal s followed by the characters c),                *)
(*   l : list items (values) or dict entries ([k |-> key, v |-> value]).   *)
(***************************************************************************)
Val(t, n, s, c, l) == [t |-> t, n |-> n, s |-> s, c |-> c, l |-> l]

Null == Val("null", 0, "", <<>>, <<>>)

Bool(b) == Val("bool", IF b THEN 1 ELSE 0, "", <<>>, <<>>)

Num(n) == Val("num", n, "", <<>>, <<>>)

NaN == Val("nan", 0, "", <<>>, <<>>)

Str(s) == Val("str", 0, s, <<>>, <<>>)

StrOf(chars) == Val("str", 0, "", chars, <<>>)

List(items) == Val("list", 0, "", <<>>, items)

Dict(entries) == Val("dict", 0, "", <<>>, entries)

Entry(k, v) == [k |-> k, v |-> v]

\* key in d   (d a dict value)
HasKey(d, key) == \E i \in 1..Len(d.l) : d.l[i].k = key

\* d[key]     (d a dict value that has the key)
Get(d, key) == d.l[CHOOSE i \in 1..Len(d.l) : d.l[i].k = key].v

\* d[key] = v : an existing key keeps its position, a new key goes last
SetKey(d, key, v) ==
    IF HasKey(d, key)
    THEN Dict([i \in 1..Len(d.l) |->
                 IF d.l[i].k = key THEN Entry(key, v) ELSE d.l[i]])
    ELSE Dict(Append(d.l, Entry(key, v)))

(***************************************************************************)
(* Fixed-point numbers: the number x is the integer x * Scale.             *)
(***************************************************************************)
Scale == 100000

Digits == <<"0", "1", "2", "3", "4", "5", "6", "7", "8", "9">>

IsDigit(ch) == \E d \in 1..10 : Digits[d] = ch

DigitValue(ch) == (CHOOSE d \in 1..10 : Digits[d] = ch) - 1

RECURSIVE DigitsValue(_)
\* the natural number written by a sequence of digits (0 for none)
DigitsValue(cs) ==
    IF cs = <<>> THEN 0
    ELSE 10 * DigitsValue(SubSeq(cs, 1, Len(cs) - 1)) + DigitValue(cs[Len(cs)])

RECURSIVE Pow10(_)
Pow10(k) == IF k <= 0 THEN 1 ELSE 10 * Pow10(k - 1)

\* the positions of "." in a lexeme
DotsOf(cs) == {i \in 1..Len(cs) : cs[i] = "."}

\* the value, in units of 1/Scale, of digits [ "." digits ] (at most five
\* fraction digits, which is all the lexemes of this model have)
UnsignedValue(cs) ==
    IF DotsOf(cs) = {} THEN DigitsValue(cs) * Scale
    ELSE LET p == CHOOSE i \in DotsOf(cs) : TRUE
             ip == SubSeq(cs, 1, p - 1)
             fp == SubSeq(cs, p + 1, Len(cs))
         IN  DigitsValue(ip) * Scale + DigitsValue(fp) * Pow10(5 - Len(fp))

(***************************************************************************)
(* Lexemes of a raw response.                                              *)
(*   k = "p"  punctuation s (one of { } [ ] : ,)                           *)
(*   k = "s"  a double-quoted string with content s                        *)
(*   k = "n"  a run of the characters c (digits, ".", "-")                 *)
(*   k = "w"  a bare word s (null, true, false, NaN, or anything else)     *)
(*   k = "ws" whitespace                                                   *)
(***************************************************************************)
Tok(k, s, c) == [k |-> k, s |-> s, c |-> c]

P(s) == Tok("p", s, <<>>)

S(s) == Tok("s", s, <<>>)

N(c) == Tok("n", "", c)

W(s) == Tok("w", s, <<>>)

WS == Tok("ws", "", <<>>)

RECURSIVE SkipWs(_, _)
\* the first position >= i that holds no whitespace (Len + 1 if none)
SkipWs(toks, i) ==
    IF i <= Len(toks) /\ toks[i].k = "ws" THEN SkipWs(toks, i + 1) ELSE i

(***************************************************************************)
(* json.loads.  A JSON number is an optional minus sign, an integer part   *)
(* without a superfluous leading zero, and an optional fraction of a dot   *)
(* and at least one digit (no lexeme of this model has an exponent).       *)
(* Any text that is not one JSON value is a JSONDecodeError.               *)
(***************************************************************************)
IsJsonNumber(cs) ==
    LET neg == cs # <<>> /\ cs[1] = "-"
        u == IF neg THEN SubSeq(cs, 2, Len(cs)) ELSE cs
        dots == DotsOf(u)
        p == IF dots = {} THEN Len(u) + 1 ELSE CHOOSE i \in dots : TRUE
        ip == SubSeq(u, 1, p - 1)
        fp == SubSeq(u, p + 1, Len(u))
    IN  /\ Cardinality(dots) <= 1
        /\ ip # <<>>
        /\ \A i \in 1..Len(ip) : IsDigit(ip[i])
        /\ (Len(ip) > 1 => ip[1] # "0")
        /\ (dots # {} => fp # <<>>)
        /\ \A i \in 1..Len(fp) : IsDigit(fp[i])

JsonNumberValue(cs) ==
    IF cs[1] = "-" THEN 0 - UnsignedValue(SubSeq(cs, 2, Len(cs)))
    ELSE UnsignedValue(cs)

ParseFail == [ok |-> FALSE, val |-> Null, next |-> 0]

ParseOk(v, i) == [ok |-> TRUE, val |-> v, next |-> i]

IsTok(toks, j, tk) == j <= Len(toks) /\ toks[j] = tk

RECURSIVE ParseValue(_, _), ParseItems(_, _, _), ParseMembers(_, _, _)
ParseValue(toks, i) ==
    LET j == SkipWs(toks, i)
    IN  IF j > Len(toks) THEN ParseFail
        ELSE LET tk == toks[j]
             IN  CASE tk.k = "s" -> ParseOk(Str(tk.s), j + 1)
                   [] tk.k = "n" ->
                        IF IsJsonNumber(tk.c)
                        THEN ParseOk(Num(JsonNumberValue(tk.c)), j + 1)
                        ELSE ParseFail
                   [] tk.k = "w" ->
                        CASE tk.s = "null" -> ParseOk(Null, j + 1)
                          [] tk.s = "true" -> ParseOk(Bool(TRUE), j + 1)
                          [] tk.s = "false" -> ParseOk(Bool(FALSE), j + 1)
                          [] tk.s = "NaN" -> ParseOk(NaN, j + 1)
                          [] OTHER -> ParseFail
                   [] tk = P("[") ->
                        IF IsTok(toks, SkipWs(toks, j + 1), P("]"))
                        THEN ParseOk(List(<<>>), SkipWs(toks, j + 1) + 1)
                        ELSE ParseItems(toks, j + 1, <<>>)
                   [] tk = P("{") ->
                        IF IsTok(toks, SkipWs(toks, j + 1), P("}"))
                        THEN ParseOk(Dict(<<>>), SkipWs(toks, j + 1) + 1)
                        ELSE ParseMembers(toks, j + 1, Dict(<<>>))
                   [] OTHER -> ParseFail

ParseItems(toks, i, acc) ==
    LET r == ParseValue(toks, i)
        j == SkipWs(toks, r.next)
    IN  IF ~r.ok THEN ParseFail
        ELSE IF IsTok(toks, j, P(","))
             THEN ParseItems(toks, j + 1, Append(acc, r.val))
        ELSE IF IsTok(toks, j, P("]"))
             THEN ParseOk(List(Append(acc, r.val)), j + 1)
        ELSE ParseFail

ParseMembers(toks, i, acc) ==
    LET j == SkipWs(toks, i)
        c == SkipWs(toks, j + 1)
        r == ParseValue(toks, c + 1)
        e == SkipWs(toks, r.next)
    IN  IF ~(j <= Len(toks) /\ toks[j].k = "s") THEN ParseFail
        ELSE IF ~IsTok(toks, c, P(":")) THEN ParseFail
        ELSE IF ~r.ok THEN ParseFail
        ELSE IF IsTok(toks, e, P(","))
             THEN ParseMembers(toks, e + 1, SetKey(acc, toks[j].s, r.val))
        ELSE IF IsTok(toks, e, P("}"))
             THEN ParseOk(SetKey(acc, toks[j].s, r.val), e + 1)
        ELSE ParseFail

\* json.loads(result_text): ok = FALSE is json.JSONDecodeError
json_loads(toks) ==
    LET r == ParseValue(toks, 1)
    IN  IF r.ok /\ SkipWs(toks, r.next) > Len(toks)
        THEN [ok |-> TRUE, val |-> r.val]
        ELSE [ok |-> FALSE, val |-> Null]

(***************************************************************************)
(* The fallback pattern of classify_with_openai: an opening brace, the     *)
(* keys "clause", "label", "confidence", "summary" in this order, each     *)
(* directly followed by a colon and its value, the first three values      *)
(* directly followed by a comma, and a closing brace.  Whitespace is       *)
(* allowed only after the opening brace, after a colon, after a comma and  *)
(* before the closing brace; the quoted values are non-empty; the          *)
(* confidence is a non-empty run of digits and dots.                       *)
(***************************************************************************)
IsNonEmptyStr(toks, j) == j <= Len(toks) /\ toks[j].k = "s" /\ toks[j].s # ""

IsDigitsAndDots(toks, j) ==
    /\ j <= Len(toks)
    /\ toks[j].k = "n"
    /\ toks[j].c # <<>>
    /\ \A i \in 1..Len(toks[j].c) : IsDigit(toks[j].c[i]) \/ toks[j].c[i] = "."

MatchAt(toks, i) ==
    LET a1 == SkipWs(toks, i + 1)
        a2 == SkipWs(toks, a1 + 2)
        a3 == SkipWs(toks, a2 + 2)
        a4 == SkipWs(toks, a3 + 2)
        a5 == SkipWs(toks, a4 + 2)
        a6 == SkipWs(toks, a5 + 2)
        a7 == SkipWs(toks, a6 + 2)
        a8 == SkipWs(toks, a7 + 2)
        a9 == SkipWs(toks, a8 + 1)
        ok == /\ IsTok(toks, i, P("{"))
              /\ IsTok(toks, a1, S("clause")) /\ IsTok(toks, a1 + 1, P(":"))
              /\ IsNonEmptyStr(toks, a2) /\ IsTok(toks, a2 + 1, P(","))
              /\ IsTok(toks, a3, S("label")) /\ IsTok(toks, a3 + 1, P(":"))
              /\ IsNonEmptyStr(toks, a4) /\ IsTok(toks, a4 + 1, P(","))
              /\ IsTok(toks, a5, S("confidence")) /\ IsTok(toks, a5 + 1, P(":"))
              /\ IsDigitsAndDots(toks, a6) /\ IsTok(toks, a6 + 1, P(","))
              /\ IsTok(toks, a7, S("summary")) /\ IsTok(toks, a7 + 1, P(":"))
              /\ IsNonEmptyStr(toks, a8)
              /\ IsTok(toks, a9, P("}"))
    IN  IF ok
        THEN [ok |-> TRUE, next |-> a9 + 1, clause |-> toks[a2].s,
              label |-> toks[a4].s, confidence |-> toks[a6].c,
              summary |-> toks[a8].s]
        ELSE [ok |-> FALSE, next |-> i + 1, clause |-> "", label |-> "",
              confidence |-> <<>>, summary |-> ""]

RECURSIVE FindAllFrom(_, _)
FindAllFrom(toks, i) ==
    IF i > Len(toks) THEN <<>>
    ELSE LET m == MatchAt(toks, i)
         IN  IF m.ok THEN <<m>> \o FindAllFrom(toks, m.next)
             ELSE FindAllFrom(toks, i + 1)

\* re.findall(pattern, result_text): the matches, left to right
re_findall(toks) == FindAllFrom(toks, 1)

\* float(confidence) of a run of digits and dots raises ValueError unless
\* it has at least one digit and at most one dot
FloatParses(cs) ==
    /\ Cardinality(DotsOf(cs)) <= 1
    /\ \E i \in 1..Len(cs) : IsDigit(cs[i])

float(cs) == UnsignedValue(cs)

(***************************************************************************)
(* text_processing.py.  A text is a sequence of one-character strings.     *)
(***************************************************************************)
Letters == {"a", "b", "L", "e", "g", "l", "D", "o", "c", "u", "m", "n",
            "t", "T", "x"}

\* str.isalnum() / str.isspace() of one character
IsAlnum(ch) == ch \in Letters \/ IsDigit(ch)

IsSpace(ch) == ch \in {" ", "\n", "\t"}

\* the characters of ".,;:()[]{}'-"
PermittedPunctuation ==
    {".", ",", ";", ":", "(", ")", "[", "]", "{", "}", "'", "-"}

\* str.lstrip(), str.rstrip(), str.strip()
LStrip(t) ==
    IF \A i \in 1..Len(t) : IsSpace(t[i]) THEN <<>>
    ELSE SubSeq(t, CHOOSE i \in 1..Len(t) :
                     ~IsSpace(t[i]) /\ \A j \in 1..(i - 1) : IsSpace(t[j]),
                Len(t))

RStrip(t) ==
    IF \A i \in 1..Len(t) : IsSpace(t[i]) THEN <<>>
    ELSE SubSeq(t, 1, CHOOSE i \in 1..Len(t) :
                        ~IsSpace(t[i]) /\ \A j \in (i + 1)..Len(t) : IsSpace(t[j]))

Strip(t) == LStrip(RStrip(t))

StartsWith(t, prefix) ==
    Len(t) >= Len(prefix) /\ SubSeq(t, 1, Len(prefix)) = prefix

\* "Legal Document Text:"
BoilerplatePrefix ==
    <<"L", "e", "g", "a", "l", " ", "D", "o", "c", "u", "m", "e", "n", "t",
      " ", "T", "e", "x", "t", ":">>

\* ''.join(char for char in text if char.isalnum() or char.isspace()
\*         or char in ".,;:()[]{}'-")
Filter(t) ==
    SelectSeq(t, LAMBDA ch : IsAlnum(ch) \/ IsSpace(ch)
                             \/ ch \in PermittedPunctuation)

\* text.replace('"', "'")
ReplaceQuotes(t) == [i \in 1..Len(t) |-> IF t[i] = "\"" THEN "'" ELSE t[i]]

\* the least element of a non-empty set of numbers
Least(set) == CHOOSE i \in set : \A j \in set : i <= j

RECURSIVE SplitOn(_, _, _)
\* str.split(sep), sep non-empty, of the part of t from position from on
SplitOn(t, sep, from) ==
    LET occ == {i \in from..(Len(t) - Len(sep) + 1) :
                  SubSeq(t, i, i + Len(sep) - 1) = sep}
    IN  IF occ = {} THEN <<SubSeq(t, from, Len(t))>>
        ELSE <<SubSeq(t, from, Least(occ) - 1)>>
             \o SplitOn(t, sep, Least(occ) + Len(sep))

\* re.sub(r' {2,}', ' ', para): of a run of spaces only the first stays
CollapseSpaces(t) ==
    LET withPrev == [i \in 1..Len(t) |->
                       <<t[i], IF i > 1 THEN t[i - 1] ELSE "">>]
        kept == SelectSeq(withPrev, LAMBDA p : ~(p[1] = " " /\ p[2] = " "))
    IN  [i \in 1..Len(kept) |-> kept[i][1]]

RECURSIVE JoinWith(_, _)
\* sep.join(parts)
JoinWith(parts, sep) ==
    IF parts = <<>> THEN <<>>
    ELSE IF Len(parts) = 1 THEN parts[1]
    ELSE parts[1] \o sep \o JoinWith(Tail(parts), sep)

RECURSIVE CleanParagraphs(_)
CleanParagraphs(paras) ==
    IF paras = <<>> THEN <<>>
    ELSE LET cleaned == Strip(CollapseSpaces(paras[1]))
         IN  IF cleaned # <<>>
             THEN <<cleaned>> \o CleanParagraphs(Tail(paras))
             ELSE CleanParagraphs(Tail(paras))

clean_text(text) ==
    LET t1 == IF StartsWith(text, BoilerplatePrefix)
              THEN Strip(SubSeq(text, Len(BoilerplatePrefix) + 1, Len(text)))
              ELSE text
        t2 == Filter(t1)
        t3 == ReplaceQuotes(t2)
    IN  JoinWith(CleanParagraphs(SplitOn(t3, <<"\n", "\n">>, 1)),
                 <<"\n", "\n">>)

\* the first positions of the maximal runs of whitespace of t
WhitespaceRuns(t) ==
    {i \in 1..Len(t) : IsSpace(t[i]) /\ (i = 1 \/ ~IsSpace(t[i - 1]))}

\* the runs that re.split(r'(?<=[.!?])\s+', text) splits at: whitespace
\* right after ".", "!" or "?"
SentenceBreaks(t) ==
    {i \in WhitespaceRuns(t) : i > 1 /\ t[i - 1] \in {".", "!", "?"}}

\* the first position >= i of t that holds no whitespace (Len + 1 if none)
RunEnd(t, i) ==
    CHOOSE e \in i..(Len(t) + 1) :
        /\ e = Len(t) + 1 \/ ~IsSpace(t[e])
        /\ \A j \in i..(e - 1) : IsSpace(t[j])

RECURSIVE SplitAtRuns(_, _, _)
\* the pieces of t, from position from on, between the whitespace runs
\* that start at the positions of breaks
SplitAtRuns(t, breaks, from) ==
    LET later == {b \in breaks : b >= from}
    IN  IF later = {} THEN <<SubSeq(t, from, Len(t))>>
        ELSE <<SubSeq(t, from, Least(later) - 1)>>
             \o SplitAtRuns(t, breaks, RunEnd(t, Least(later)))

\* re.split(r'(?<=[.!?])\s+', text)
RegexSentences(t) == SplitAtRuns(t, SentenceBreaks(t), 1)

\* nltk.sent_tokenize(text): the punkt tokenizer breaks the text at some
\* of its whitespace runs (which ones is decided by its trained model),
\* never returns a sentence for an empty text, and drops the whitespace at
\* the end of the text
NltkSentences(t, breaks) ==
    IF RStrip(t) = <<>> THEN <<>>
    ELSE SplitAtRuns(RStrip(t), breaks, 1)

RECURSIVE SplitSemicolons(_, _)
\* re.split(r';\s*', sentence) of the part of t from position from on
SplitSemicolons(t, from) ==
    LET semis == {i \in from..Len(t) : t[i] = ";"}
    IN  IF semis = {} THEN <<SubSeq(t, from, Len(t))>>
        ELSE <<SubSeq(t, from, Least(semis) - 1)>>
             \o SplitSemicolons(t, RunEnd(t, Least(semis) + 1))

RECURSIVE StripNonEmpty(_)
\* [clause.strip() for clause in sub_clauses if clause.strip()]
StripNonEmpty(parts) ==
    IF parts = <<>> THEN <<>>
    ELSE IF Strip(parts[1]) # <<>>
         THEN <<Strip(parts[1])>> \o StripNonEmpty(Tail(parts))
         ELSE StripNonEmpty(Tail(parts))

RECURSIVE ClausesOf(_)
\* the loop of split_into_clauses over the sentences
ClausesOf(sentences) ==
    IF sentences = <<>> THEN <<>>
    ELSE StripNonEmpty(SplitSemicolons(sentences[1], 1))
         \o ClausesOf(Tail(sentences))

\* split_into_clauses without the split of the sentences at semicolons
split_into_sentences(text, nltk, breaks) ==
    LET t == clean_text(text)
    IN  StripNonEmpty(IF nltk THEN NltkSentences(t, breaks)
                      ELSE RegexSentences(t))

\* split_into_clauses(text); with NLTK, breaks are the tokenizer's breaks
split_into_clauses(text, nltk, breaks) ==
    LET t == clean_text(text)
    IN  ClausesOf(IF nltk THEN NltkSentences(t, breaks)
                  ELSE RegexSentences(t))

(***************************************************************************)
(* classify_with_openai: the interpretation of the raw response.           *)
(***************************************************************************)
ChunkSize == 200

MaxChunks == 3

TruncateLen == 1000

Half == Scale \div 2

LegalDocumentConfidence == (7 * Scale) \div 10

Min(a, b) == IF a < b THEN a ELSE b

Record(clause, label, confidence, level, summary) ==
    Dict(<<Entry("clause", clause), Entry("label", label),
           Entry("confidence", confidence),
           Entry("confidence_level", level), Entry("summary", summary)>>)

\* chunks = [text[i:i+200] for i in range(0, len(text), 200)]
Chunks(text) ==
    [k \in 1..((Len(text) + ChunkSize - 1) \div ChunkSize) |->
        SubSeq(text, (k - 1) * ChunkSize + 1, Min(k * ChunkSize, Len(text)))]

\* Placeholders made of the normalized text
PlaceholdersFromNormalized(text) ==
    LET t == clean_text(text)
    IN  IF Len(t) > ChunkSize
        THEN List([i \in 1..Min(MaxChunks, Len(Chunks(t))) |->
                     Record(StrOf(Chunks(t)[i]), Str("Unclassified Text"),
                            Num(Half), Str("Moderate"),
                            Str("Part " \o ToString(i)
                                \o " of unclassified legal text"))])
        ELSE List(<<Record(StrOf(t), Str("Unclassified Text"), Num(Half),
                           Str("Moderate"), Str("Unclassified legal text"))>>)

\* the "Creating simple result" branch
Placeholders(text) ==
    IF Len(text) > ChunkSize
    THEN List([i \in 1..Min(MaxChunks, Len(Chunks(text))) |->
                 Record(StrOf(Chunks(text)[i]), Str("Unclassified Text"),
                        Num(Half), Str("Moderate"),
                        Str("Part " \o ToString(i)
                            \o " of unclassified legal text"))])
    ELSE List(<<Record(StrOf(text), Str("Unclassified Text"), Num(Half),
                       Str("Moderate"), Str("Unclassified legal text"))>>)

\* LegalDocument with the text cut from 1000 characters on, not from 1001
LegalDocumentCutAtLimit(text) ==
    List(<<Record(IF Len(text) >= TruncateLen
                  THEN StrOf(SubSeq(text, 1, TruncateLen) \o <<".", ".", ".">>)
                  ELSE StrOf(text),
                  Str("Legal Document"), Num(LegalDocumentConfidence),
                  Str("High"),
                  Str("This is a legal document containing various clauses related to contracts, agreements, or legal matters."))>>)

\* the single synthetic record of the regex fallback
LegalDocument(text) ==
    List(<<Record(IF Len(text) > TruncateLen
                  THEN StrOf(SubSeq(text, 1, TruncateLen) \o <<".", ".", ".">>)
                  ELSE StrOf(text),
                  Str("Legal Document"), Num(LegalDocumentConfidence),
                  Str("High"),
                  Str("This is a legal document containing various clauses related to contracts, agreements, or legal matters."))>>)

IsListOfDicts(v) ==
    v.t = "list" /\ Len(v.l) > 0 /\ \A i \in 1..Len(v.l) : v.l[i].t = "dict"

\* for key, value in parsed_results.items(): the first non-empty list of
\* dicts, or the empty list results was initialised with
FirstListOfDicts(d) ==
    LET hits == {i \in 1..Len(d.l) : IsListOfDicts(d.l[i].v)}
    IN  IF hits = {} THEN List(<<>>)
        ELSE d.l[CHOOSE i \in hits : \A j \in hits : i <= j].v

\* the body of "try: parsed_results = json.loads(result_text) ..." when the
\* parse succeeds
FromParsed(parsed, text) ==
    IF parsed.t = "dict" /\ HasKey(parsed, "results")
    THEN Get(parsed, "results")
    ELSE IF parsed.t = "list" THEN parsed
    ELSE LET found == IF parsed.t = "dict"
                      THEN IF HasKey(parsed, "clause") /\ HasKey(parsed, "label")
                           THEN List(<<parsed>>)
                           ELSE FirstListOfDicts(parsed)
                      ELSE List(<<>>)
         IN  IF Len(found.l) = 0 THEN Placeholders(text) ELSE found

\* FromRegex with re.search in the place of re.findall: the first match only
FromRegexFirstMatch(result_text, text) ==
    LET matches == re_findall(result_text)
    IN  IF matches # <<>>
        THEN IF FloatParses(matches[1].confidence)
             THEN List(<<Record(Str(matches[1].clause), Str(matches[1].label),
                                Num(float(matches[1].confidence)),
                                Str("High"), Str(matches[1].summary))>>)
             ELSE LegalDocument(text)
        ELSE LegalDocument(text)

\* the body of "except json.JSONDecodeError": the records of the matches,
\* or the Legal Document record when nothing matches or float() raises
FromRegex(result_text, text) ==
    LET matches == re_findall(result_text)
    IN  IF matches # <<>>
        THEN IF \A i \in 1..Len(matches) : FloatParses(matches[i].confidence)
             THEN List([i \in 1..Len(matches) |->
                          Record(Str(matches[i].clause), Str(matches[i].label),
                                 Num(float(matches[i].confidence)),
                                 Str("High"), Str(matches[i].summary))])
             ELSE LegalDocument(text)
        ELSE LegalDocument(text)

\* results as it stands before the calibration loop
Interpret(result_text, text) ==
    LET parsed == json_loads(result_text)
    IN  IF parsed.ok THEN FromParsed(parsed.val, text)
        ELSE FromRegex(result_text, text)

(***************************************************************************)
(* classify_with_openai: the calibration loop.                             *)
(***************************************************************************)
VeryHighBound == (9 * Scale) \div 10

HighBound == (7 * Scale) \div 10

ModerateBound == (5 * Scale) \div 10

LowBound == (3 * Scale) \div 10

Hundredth == Scale \div 100

\* the operands min() and max() can order: int, float (nan included), bool
IsNumber(v) == v.t \in {"num", "bool", "nan"}

\* Clamp without max(0.0, ..)
ClampUpperOnly(v) ==
    LET x == IF v.t = "bool" THEN v.n * Scale ELSE v.n
    IN  IF v.t = "nan" THEN Scale
        ELSE IF x > Scale THEN Scale
        ELSE x

\* max(0.0, min(1.0, c)): nan compares false with everything, so
\* min(1.0, nan) is 1.0
Clamp(v) ==
    LET x == IF v.t = "bool" THEN v.n * Scale ELSE v.n
    IN  IF v.t = "nan" THEN Scale
        ELSE IF x > Scale THEN Scale
        ELSE IF x < 0 THEN 0
        ELSE x

\* round(x, 2).  A value half way between two hundredths goes to the one
\* its binary floating-point representation is nearer to (0.895 -> 0.9,
\* 0.285 -> 0.28): up tells which
Round2(x, up) ==
    LET q == x \div Hundredth
        r == x % Hundredth
    IN  IF 2 * r < Hundredth THEN q * Hundredth
        ELSE IF 2 * r > Hundredth THEN (q + 1) * Hundredth
        ELSE IF up THEN (q + 1) * Hundredth
        ELSE q * Hundredth

IsTie(v) == IsNumber(v) /\ 2 * (Clamp(v) % Hundredth) = Hundredth

\* Level with exclusive lower bounds
LevelExclusive(x) ==
    IF x > VeryHighBound THEN "Very High"
    ELSE IF x > HighBound THEN "High"
    ELSE IF x > ModerateBound THEN "Moderate"
    ELSE IF x > LowBound THEN "Low"
    ELSE "Very Low"

Level(x) ==
    IF x >= VeryHighBound THEN "Very High"
    ELSE IF x >= HighBound THEN "High"
    ELSE IF x >= ModerateBound THEN "Moderate"
    ELSE IF x >= LowBound THEN "Low"
    ELSE "Very Low"

\* the strings of this model that have "confidence" as a substring
ContainsConfidence(v) == v.t = "str" /\ v.s \in {"confidence", "confidence_level"}

\* "confidence" in result, and what the body of the if does, for one item
\* of results: TRUE when the iteration raises TypeError
ItemRaises(item) ==
    CASE item.t = "dict" ->
           HasKey(item, "confidence") /\ ~IsNumber(Get(item, "confidence"))
      [] item.t = "str" -> ContainsConfidence(item)
      [] item.t = "list" -> \E i \in 1..Len(item.l) : item.l[i] = Str("confidence")
      [] OTHER -> TRUE

\* CalibrateItem with the level taken before the rounding
CalibrateItemLevelFirst(item, up) ==
    IF item.t = "dict" /\ HasKey(item, "confidence")
    THEN LET x == Clamp(Get(item, "confidence"))
         IN  SetKey(SetKey(item, "confidence", Num(Round2(x, up))),
                    "confidence_level", Str(Level(x)))
    ELSE item

CalibrateItem(item, up) ==
    IF item.t = "dict" /\ HasKey(item, "confidence")
    THEN LET c == Round2(Clamp(Get(item, "confidence")), up)
         IN  SetKey(SetKey(item, "confidence", Num(c)),
                    "confidence_level", Str(Level(c)))
    ELSE item

\* what "for result in results" iterates over: the items of a list, the
\* keys of a dict, the characters of a str
IterItems(results) ==
    CASE results.t = "list" -> results.l
      [] results.t = "dict" -> [i \in 1..Len(results.l) |-> Str(results.l[i].k)]
      [] results.t = "str" -> [i \in 1..Len(results.c) |-> StrOf(<<results.c[i]>>)]
      [] OTHER -> <<>>

\* the positions of results whose confidence is half way between two
\* hundredths
Ties(results) ==
    IF results.t # "list" THEN {}
    ELSE {i \in 1..Len(results.l) :
            /\ results.l[i].t = "dict"
            /\ HasKey(results.l[i], "confidence")
            /\ IsTie(Get(results.l[i], "confidence"))}

\* the calibration loop: ups tells, for each position of Ties(results),
\* whether round() goes up there.  ok = FALSE is a TypeError.
Calibrate(results, ups) ==
    IF results.t \notin {"list", "dict", "str"}
    THEN [ok |-> FALSE, results |-> results]
    ELSE IF \E i \in 1..Len(IterItems(results)) : ItemRaises(IterItems(results)[i])
    THEN [ok |-> FALSE, results |-> results]
    ELSE IF results.t = "list"
    THEN [ok |-> TRUE,
          results |-> List([i \in 1..Len(results.l) |->
                              CalibrateItem(results.l[i],
                                            IF i \in DOMAIN ups THEN ups[i]
                                            ELSE FALSE)])]
    ELSE [ok |-> TRUE, results |-> results]

(***************************************************************************)
(* generate_document_summary.                                              *)
(***************************************************************************)
\* "if not results"
IsFalsy(results) ==
    CASE results.t \in {"list", "dict"} -> results.l = <<>>
      [] results.t = "str" -> results.s = "" /\ results.c = <<>>
      [] results.t = "null" -> TRUE
      [] results.t \in {"num", "bool"} -> results.n = 0
      [] OTHER -> FALSE

\* result.get("label", "Unknown")
LabelOf(item) == IF HasKey(item, "label") THEN Get(item, "label") ELSE Str("Unknown")

\* f"{label}" for the labels of this model
LabelText(label) ==
    CASE label.t = "str" -> label.s
      [] label.t = "null" -> "None"
      [] OTHER -> "?"

\* result.get raises AttributeError unless result is a dict;
\* clause_counts[label] raises TypeError when the label is a list or a dict
SummaryRaises(results) ==
    /\ ~IsFalsy(results)
    /\ \/ results.t # "list"
       \/ \E i \in 1..Len(results.l) :
            \/ results.l[i].t # "dict"
            \/ LabelOf(results.l[i]).t \in {"list", "dict"}

\* the labels in order of first occurrence (the keys of clause_counts)
RECURSIVE LabelOrder(_, _)
LabelOrder(items, seen) ==
    IF items = <<>> THEN seen
    ELSE LET lab == LabelOf(items[1])
         IN  IF \E i \in 1..Len(seen) : seen[i] = lab
             THEN LabelOrder(Tail(items), seen)
             ELSE LabelOrder(Tail(items), Append(seen, lab))

LabelCount(items, lab) == Cardinality({i \in 1..Len(items) : LabelOf(items[i]) = lab})

\* SummaryItem with the "s" put on every count
SummaryItemAlwaysPlural(items, lab) ==
    ToString(LabelCount(items, lab)) \o " " \o LabelText(lab) \o " clause"
    \o (IF LabelCount(items, lab) >= 1 THEN "s" ELSE "")

SummaryItem(items, lab) ==
    ToString(LabelCount(items, lab)) \o " " \o LabelText(lab) \o " clause"
    \o (IF LabelCount(items, lab) > 1 THEN "s" ELSE "")

RECURSIVE JoinStrings(_, _)
JoinStrings(parts, sep) ==
    IF parts = <<>> THEN ""
    ELSE IF Len(parts) = 1 THEN parts[1]
    ELSE parts[1] \o sep \o JoinStrings(Tail(parts), sep)

generate_document_summary(results) ==
    IF IsFalsy(results) THEN "No clauses found to summarize."
    ELSE LET labels == LabelOrder(results.l, <<>>)
         IN  "This document contains "
             \o JoinStrings([i \in 1..Len(labels) |->
                               SummaryItem(results.l, labels[i])], ", ")
             \o "."

(***************************************************************************)
(* create_classification_prompt.  The prompt is a sequence whose elements  *)
(* are the fixed passages of the template, each as one element, and the    *)
(* characters of the category list and of the clause lines.                *)
(***************************************************************************)
\* the f-string of create_classification_prompt up to the category list
PromptIntro ==
    "\nYou are a legal assistant AI specialized in contract analysis. Classify each clause into one of the following categories:\n"

\* the f-string from the category list to the few-shot examples
PromptInstructions ==
    "\n\nIf a clause doesn't clearly fit any category, classify it as the closest match and adjust the confidence score accordingly.\n\nFor each clause, respond with a JSON object containing:\n- clause: the original text of the clause\n- label: the most appropriate category from the list above\n- confidence: a float between 0 and 1 representing your confidence in this classification\n  - 0.9-1.0: Very high confidence, clear and unambiguous classification\n  - 0.7-0.9: High confidence, strong indicators of the category\n  - 0.5-0.7: Moderate confidence, some indicators but potential ambiguity\n  - 0.3-0.5: Low confidence, weak indicators or multiple possible categories\n  - 0.0-0.3: Very low confidence, unclear or unusual clause\n- summary: a concise explanation of the clause in plain English\n\nRespond with a JSON array containing one object for each clause.\n\n"

\* models.py: the three worked examples
FEW_SHOT_EXAMPLES ==
    "\nExample 1:\nText: \"This agreement shall terminate upon 30 days written notice by either party.\"\nClassification: {\n  \"clause\": \"This agreement shall terminate upon 30 days written notice by either party.\",\n  \"label\": \"Termination\",\n  \"confidence\": 0.95,\n  \"summary\": \"Either party can end the agreement with 30 days written notice.\"\n}\n\nExample 2:\nText: \"All information shared during the course of this agreement shall be kept confidential for a period of 5 years.\"\nClassification: {\n  \"clause\": \"All information shared during the course of this agreement shall be kept confidential for a period of 5 years.\",\n  \"label\": \"Confidentiality\",\n  \"confidence\": 0.98,\n  \"summary\": \"Information shared must be kept secret for 5 years.\"\n}\n\nExample 3:\nText: \"This agreement shall be governed by the laws of the State of California.\"\nClassification: {\n  \"clause\": \"This agreement shall be governed by the laws of the State of California.\",\n  \"label\": \"Governing Law\",\n  \"confidence\": 0.97,\n  \"summary\": \"California law applies to this agreement.\"\n}\n"

\* the end of the f-string: the header of the clause list
PromptHeader ==
    "\n\nClauses to classify:\n"

RECURSIVE DecimalOf(_)
\* f"{i}": the decimal digits of a natural number
DecimalOf(n) ==
    IF n < 10 THEN <<Digits[n + 1]>>
    ELSE DecimalOf(n \div 10) \o <<Digits[(n % 10) + 1]>>

\* ClauseLine with the clauses numbered from 0, as enumerate(clauses) does
ClauseLineZeroBased(i, clause) ==
    <<"\n">> \o DecimalOf(i - 1) \o <<".", " ">> \o clause

\* f"\n{i}. {clause}"
ClauseLine(i, clause) ==
    <<"\n">> \o DecimalOf(i) \o <<".", " ">> \o clause

RECURSIVE ClauseLines(_, _)
\* for i, clause in enumerate(clauses, 1): prompt += ..., from clause i on
ClauseLines(clauses, i) ==
    IF i > Len(clauses) THEN <<>>
    ELSE ClauseLine(i, clauses[i]) \o ClauseLines(clauses, i + 1)

create_classification_prompt(clauses, clause_types) ==
    <<PromptIntro>>
    \o JoinWith(clause_types, <<",", " ">>)
    \o <<PromptInstructions, FEW_SHOT_EXAMPLES, PromptHeader>>
    \o ClauseLines(clauses, 1)

(***************************************************************************)
(* pdf_extraction.py: the text extract_text_from_pdf makes of the elements *)
(* partition_pdf returns.  An element is modelled by its str().            *)
(***************************************************************************)
\* "\n".join([str(element) for element in elements])
raw_text(elements) == JoinWith(elements, <<"\n">>)

\* the value extract_text_from_pdf returns for these elements
ExtractedText(elements) ==
    IF Strip(raw_text(elements)) = <<>>
    THEN Str("No text could be extracted from the PDF file.")
    ELSE StrOf(raw_text(elements))

(***************************************************************************)
(* The inputs: the texts given to classify_clauses and the raw responses   *)
(* the model call can return.                                              *)
(***************************************************************************)
MaxTextLen == 2

MaxRecords == 2

TextChars == {"a", " ", "#"}

RECURSIVE SeqsUpTo(_, _)
\* the sequences over set of length at most n
SeqsUpTo(set, n) ==
    IF n = 0 THEN {<<>>}
    ELSE LET shorter == SeqsUpTo(set, n - 1)
         IN  shorter \cup {Append(q, x) : q \in shorter, x \in set}

\* texts around the chunking and truncation thresholds
LongLens == {ChunkSize, ChunkSize + 1, MaxChunks * ChunkSize + 1,
             TruncateLen, TruncateLen + 1}

NamedTexts ==
    { <<";">>, <<";", " ", ";">>,
      <<"a", ".", " ", "a", ".">>,
      <<"a", ";", " ", "b", ".">>,
      BoilerplatePrefix \o <<" ", "a", ".">>,
      BoilerplatePrefix,
      <<"a", "\"", "b">>,
      <<"a", "\n", "\n", " ", "\n", "\n", "b">> }

\* a text of three full windows and one character more, each window of
\* its own letter, that begins with a character the normalizer removes
WindowedText ==
    [i \in 1..(MaxChunks * ChunkSize + 1) |->
        IF i = 1 THEN "#"
        ELSE <<"a", "b", "c", "x">>[((i - 1) \div ChunkSize) + 1]]

Texts ==
    SeqsUpTo(TextChars, MaxTextLen)
    \cup {[i \in 1..n |-> "a"] : n \in LongLens}
    \cup NamedTexts
    \cup {WindowedText}

RECURSIVE Flatten(_, _)
\* the concatenation of the lexeme sequences parts, sep between them
Flatten(parts, sep) ==
    IF parts = <<>> THEN <<>>
    ELSE IF Len(parts) = 1 THEN parts[1]
    ELSE parts[1] \o sep \o Flatten(Tail(parts), sep)

\* { "k1": v1, "k2": v2 } with a space after each colon and comma
ObjToks(pairs) ==
    <<P("{")>>
    \o Flatten([i \in 1..Len(pairs) |->
                  <<S(pairs[i][1]), P(":"), WS>> \o pairs[i][2]],
               <<P(","), WS>>)
    \o <<P("}")>>

\* [ v1, v2 ]
ArrToks(items) == <<P("[")>> \o Flatten(items, <<P(","), WS>>) \o <<P("]")>>

\* {"clause": .., "label": .., "confidence": .., "summary": ..}
TupleToks(clause, label, conf, summary) ==
    ObjToks(<< <<"clause", <<S(clause)>>>>, <<"label", <<S(label)>>>>,
               <<"confidence", <<conf>>>>, <<"summary", <<S(summary)>>>> >>)

\* the confidence lexemes: the tier boundaries and their neighbours, values
\* out of range, values half way between two hundredths, and runs of
\* digits and dots that are no JSON number
ConfLexemes ==
    { <<"0", ".", "9">>, <<"0", ".", "8", "9", "9", "9", "9">>,
      <<"0", ".", "8", "9", "4", "9", "9">>,
      <<"0", ".", "7">>, <<"0", ".", "6", "9", "9", "9", "9">>,
      <<"0", ".", "5">>, <<"0", ".", "4", "9", "4">>,
      <<"0", ".", "3">>, <<"0", ".", "2", "9", "9", "9", "9">>,
      <<"0", ".", "2">>,
      <<"1", ".", "2">>, <<"-", "0", ".", "1">>, <<"0">>, <<"1">>,
      <<"0", ".", "8", "9", "5">>, <<"0", ".", "1", "2", "5">>,
      <<"0", ".", "9", "9", "5">>, <<"0", ".", "0", "0", "5">>,
      <<".", "5">>, <<"1", ".">>, <<"0", "7">>,
      <<"1", ".", "2", ".", "3">>, <<".">> }

\* the records that sequences of several records are made of
CoreRecords ==
    { TupleToks("c1", "Termination", N(<<"0", ".", "9", "5">>), "s1"),
      TupleToks("c2", "Confidentiality", N(<<"1", ".", "2">>), "s2"),
      ObjToks(<< <<"clause", <<S("c3")>>>>, <<"label", <<S("Termination")>>>> >>) }

\* further records, used alone
SingleRecords ==
    {TupleToks("c1", "Termination", N(c), "s1") : c \in ConfLexemes}
    \cup
    { TupleToks("c1", "Termination", S("high"), "s1"),
      TupleToks("c1", "Termination", W("null"), "s1"),
      TupleToks("c1", "Termination", W("NaN"), "s1"),
      TupleToks("c1", "Termination", W("true"), "s1"),
      TupleToks("", "Termination", N(<<"0", ".", "9">>), "s1"),
      ObjToks(<< <<"clause", <<S("c1")>>>>, <<"confidence", <<N(<<"0", ".", "2">>)>>>>,
                 <<"confidence_level", <<S("High")>>>> >>),
      ObjToks(<< <<"clause", <<S("c1")>>>>, <<"label", <<W("null")>>>> >>),
      ObjToks(<< <<"clause", <<S("c1")>>>>, <<"label", ArrToks(<< <<S("x")>> >>)>> >>),
      ObjToks(<< <<"summary", <<S("s1")>>>> >>),
      <<P("{"), S("clause"), WS, P(":"), S("c1"), P(","), S("label"), P(":"),
        S("Termination"), P(","), S("confidence"), P(":"),
        N(<<"0", ".", "9">>), P(","), S("summary"), P(":"), S("s1"), P("}")>>,
      <<N(<<"1">>)>>, <<S("a")>>, <<S("confidence")>>, <<W("null")>>,
      ArrToks(<<>>), ArrToks(<< <<S("confidence")>> >>) }

RecordSeqs ==
    SeqsUpTo(CoreRecords, MaxRecords) \cup {<<r>> : r \in SingleRecords}

\* the ways a sequence of records comes back: as the "results" of an
\* object, as a bare array, after some prose; and, for at most one
\* record, under another key, or as an array cut short; one record also
\* comes back alone
Shaped(rs) ==
    { ObjToks(<< <<"results", ArrToks(rs)>> >>),
      ArrToks(rs),
      <<W("Here"), WS>> \o Flatten(rs, <<WS>>) }
    \cup (IF Len(rs) <= 1
          THEN { ObjToks(<< <<"data", ArrToks(rs)>> >>),
                 <<P("[")>> \o Flatten(rs, <<P(","), WS>>) }
          ELSE {})
    \cup (IF Len(rs) = 1 THEN {rs[1]} ELSE {})

SpecialResponses ==
    { <<>>,
      ObjToks(<<>>),
      ObjToks(<< <<"error", <<S("quota")>>>> >>),
      ObjToks(<< <<"results", <<W("null")>>>> >>),
      ObjToks(<< <<"results", <<N(<<"5">>)>>>> >>),
      ObjToks(<< <<"results", <<S("abc")>>>> >>),
      ObjToks(<< <<"results", <<S("")>>>> >>),
      ObjToks(<< <<"results", ObjToks(<<>>)>> >>),
      ObjToks(<< <<"results", ObjToks(<< <<"confidence", <<N(<<"1">>)>>>> >>)>> >>),
      ObjToks(<< <<"results", ObjToks(<< <<"a", <<N(<<"1">>)>>>> >>)>> >>),
      ObjToks(<< <<"results", <<W("null")>>>>, <<"clause", <<S("c1")>>>>,
                 <<"label", <<S("Termination")>>>> >>),
      ObjToks(<< <<"a", ArrToks(<<>>)>>, <<"b", ArrToks(<< <<N(<<"1">>)>> >>)>>,
                 <<"c", ArrToks(<< ObjToks(<< <<"label", <<S("Liability")>>>> >>) >>)>>,
                 <<"d", ArrToks(<< ObjToks(<< <<"label", <<S("Payment Terms")>>>> >>) >>)>> >>),
      ObjToks(<< <<"results", ArrToks(<<>>)>>, <<"results", <<N(<<"0">>)>>>> >>),
      <<P("{"), S("results"), P(":"), P("["), P("]"), P(","), P("}")>>,
      <<P("["), P("]"), W("done")>> }

RawResponses ==
    UNION {Shaped(rs) : rs \in RecordSeqs} \cup SpecialResponses

(***************************************************************************)
(* The arguments the functions are called with on their own.               *)
(***************************************************************************)
MaxSegmentTextLen == 4

MaxSummaryRecords == 3

MaxPromptClauses == 2

MaxCategories == 2

MaxElements == 2

\* a letter, the sentence end, the clause separator, whitespace within and
\* between paragraphs, and the double quote
SegmentChars == {"a", ".", ";", " ", "\"", "\n"}

SegmentNamedTexts ==
    { <<"a", ".", " ", "b", ".">>,
      <<"a", ";", " ", "b", ".">>,
      <<"a", ".", " ", "b", ";", "c", ".">>,
      <<"a", " ", ";", "\t", " ", "b", ".", "\n", "c">>,
      <<"\"", "a", "\"", " ", " ", "'", "b", "'", ";", "#">>,
      BoilerplatePrefix \o <<" ", "a", ";", " ", "b", ".">>,
      BoilerplatePrefix }

\* the texts clean_text and split_into_clauses are called with
SegmentTexts ==
    SeqsUpTo(SegmentChars, MaxSegmentTextLen) \cup SegmentNamedTexts

\* records with a label, with the label "Unknown", with the label None and
\* with no label
SummaryRecords ==
    { Dict(<<Entry("label", Str("Termination")), Entry("confidence", Num(VeryHighBound))>>),
      Dict(<<Entry("label", Str("Confidentiality")), Entry("confidence", Num(HighBound))>>),
      Dict(<<Entry("label", Str("Unknown"))>>),
      Dict(<<Entry("label", Null)>>),
      Dict(<<Entry("clause", Str("c1"))>>) }

\* the sequences generate_document_summary is called with
SummaryInputs == {List(q) : q \in SeqsUpTo(SummaryRecords, MaxSummaryRecords)}

\* clauses: one that looks like a numbered line and one of two lines among
\* them
PromptClauses ==
    { <<"a">>, <<"b", ".">>, <<"2", ".", " ", "a">>, <<"a", "\n", "b">> }

\* a clause list long enough for an index of two digits
LongClauseList == [i \in 1..11 |-> IF i = 10 THEN <<"b", ".">> ELSE <<"a">>]

ClauseLists == SeqsUpTo(PromptClauses, MaxPromptClauses) \cup {LongClauseList}

\* category labels, one of them with a comma in it
Categories == { <<"T", "y", "p", "e", " ", "A">>, <<"B">>, <<"C", ",", " ", "D">> }

CategoryLists == SeqsUpTo(Categories, MaxCategories)

\* str(element) of the elements partition_pdf returns
ElementTexts == { <<>>, <<" ">>, <<"a">>, <<"b", ".">>, <<"a", "\n", "b">> }

ElementLists == SeqsUpTo(ElementTexts, MaxElements)

\* the bytes extract_text_from_pdf is called with
PdfBytes == { <<>>, <<"%", "P", "D", "F">>, <<"%", "P", "D", "F", "-", "1", ".", "4">>,
              <<"a">> }

(***************************************************************************)
(* One call of classify_clauses.                                           *)
(***************************************************************************)
VARIABLES
    text,               \* the argument of classify_clauses
    OPENAI_AVAILABLE,   \* whether "from openai import OpenAI" succeeded
    NLTK_AVAILABLE,     \* whether "import nltk" succeeded
    pc,                 \* where the call is
    clauses,            \* split_into_clauses(text), once computed
    call_status,        \* client.chat.completions.create: "not called",
                        \* "returned" or "failed"
    result_text,        \* response.choices[0].message.content
    results,            \* the local variable results
    outcome,            \* the dictionary returned to the caller
    exc                 \* the exception raised to the caller, if any

\* one call of clean_text or of split_into_clauses on its own
VARIABLES
    tp_text,            \* the argument text
    tp_pc,              \* "idle", "call", "clean_text" or "split_into_clauses"
    tp_breaks,          \* where nltk.sent_tokenize broke the text
    tp_cleaned,         \* what clean_text returned
    tp_clauses          \* what split_into_clauses returned

\* one call of generate_document_summary on its own
VARIABLES
    gs_results,         \* the argument results
    gs_pc,              \* "idle", "call" or "returned"
    gs_summary          \* the string returned

\* one call of create_classification_prompt on its own
VARIABLES
    cp_clauses,         \* the argument clauses
    cp_clause_types,    \* the argument clause_types
    cp_pc,              \* "idle", "call" or "returned"
    cp_prompt           \* the prompt returned

\* one call of extract_text_from_pdf
VARIABLES
    PDF_SUPPORT,        \* whether "from unstructured.partition.pdf import
                        \* partition_pdf" succeeded
    pdf_data,           \* the bytes of pdf_data_or_path
    is_file_path,       \* the argument is_file_path
    caller_file,        \* whether the file at the caller's path existed
                        \* when the call began
    files,              \* the files that exist, of "caller" (the file at
                        \* the caller's path) and "temp" (the file
                        \* NamedTemporaryFile makes)
    temp_path,          \* the local temp_path: "unbound", "None" or "temp"
    pdf_pc,             \* where the call is
    pdf_result,         \* the value returned
    pdf_exc             \* the exception raised to the caller, if any

pipelineVars == <<text, OPENAI_AVAILABLE, NLTK_AVAILABLE, pc, clauses,
                  call_status, result_text, results, outcome, exc>>

textVars == <<tp_text, tp_pc, tp_breaks, tp_cleaned, tp_clauses>>

summaryVars == <<gs_results, gs_pc, gs_summary>>

promptVars == <<cp_clauses, cp_clause_types, cp_pc, cp_prompt>>

pdfVars == <<PDF_SUPPORT, pdf_data, is_file_path, caller_file, files,
             temp_path, pdf_pc, pdf_result, pdf_exc>>

\* the variables of the calls of the single functions
functionVars == <<textVars, summaryVars, promptVars, pdfVars>>

vars == <<pipelineVars, functionVars>>

\* nothing returned yet
NoOutcome ==
    [keys |-> {}, error |-> "", results |-> List(<<>>),
     document_summary |-> "", clause_count |-> 0]

\* {"error": message, "results": []}
ErrorOutcome(message) ==
    [keys |-> {"error", "results"}, error |-> message, results |-> List(<<>>),
     document_summary |-> "", clause_count |-> 0]

\* {"results": results, "document_summary": ..., "metadata": {...}}
ResultOutcome(res, summary, count) ==
    [keys |-> {"results", "document_summary", "metadata"}, error |-> "",
     results |-> res, document_summary |-> summary, clause_count |-> count]

\* no call of classify_clauses
PipelineIdle ==
    /\ text = <<>>
    /\ OPENAI_AVAILABLE = FALSE
    /\ pc = "idle"
    /\ clauses = <<>>
    /\ call_status = "not called"
    /\ result_text = <<>>
    /\ results = List(<<>>)
    /\ outcome = NoOutcome
    /\ exc = ""

\* no call of clean_text or split_into_clauses on its own
TextIdle ==
    /\ tp_text = <<>>
    /\ tp_pc = "idle"
    /\ tp_breaks = {}
    /\ tp_cleaned = <<>>
    /\ tp_clauses = <<>>

\* no call of generate_document_summary on its own
SummaryIdle ==
    /\ gs_results = List(<<>>)
    /\ gs_pc = "idle"
    /\ gs_summary = ""

\* no call of create_classification_prompt on its own
PromptIdle ==
    /\ cp_clauses = <<>>
    /\ cp_clause_types = <<>>
    /\ cp_pc = "idle"
    /\ cp_prompt = <<>>

\* no call of extract_text_from_pdf
PdfIdle ==
    /\ PDF_SUPPORT = FALSE
    /\ pdf_data = <<>>
    /\ is_file_path = FALSE
    /\ caller_file = FALSE
    /\ files = {}
    /\ temp_path = "unbound"
    /\ pdf_pc = "idle"
    /\ pdf_result = Null
    /\ pdf_exc = ""

Init ==
    /\ text \in Texts
    /\ OPENAI_AVAILABLE \in BOOLEAN
    /\ NLTK_AVAILABLE \in BOOLEAN
    /\ pc = "start"
    /\ clauses = <<>>
    /\ call_status = "not called"
    /\ result_text = <<>>
    /\ results = List(<<>>)
    /\ outcome = NoOutcome
    /\ exc = ""
    /\ TextIdle /\ SummaryIdle /\ PromptIdle /\ PdfIdle

\* core.classify_clauses up to its call of classify_with_openai
ClassifyClauses ==
    /\ pc = "start"
    /\ IF Strip(text) = <<>>
       THEN /\ outcome' = ErrorOutcome("Empty text provided")
            /\ pc' = "done"
       ELSE /\ outcome' = outcome
            /\ pc' = "classify_with_openai"
    /\ UNCHANGED <<text, OPENAI_AVAILABLE, NLTK_AVAILABLE, clauses, call_status,
                   result_text, results, exc>>
    /\ UNCHANGED functionVars

\* Segment without "if not clauses: return"
SegmentNoGuard ==
    /\ pc = "classify_with_openai"
    /\ IF ~OPENAI_AVAILABLE
       THEN /\ outcome' = ErrorOutcome("OpenAI API not available. Install with: pip install openai")
            /\ pc' = "done"
            /\ clauses' = clauses
       ELSE \E breaks \in (IF NLTK_AVAILABLE
                           THEN SUBSET WhitespaceRuns(RStrip(clean_text(text)))
                           ELSE {{}}) :
              /\ clauses' = split_into_clauses(text, NLTK_AVAILABLE, breaks)
              /\ outcome' = outcome
              /\ pc' = "call"
    /\ UNCHANGED <<text, OPENAI_AVAILABLE, NLTK_AVAILABLE, call_status,
                   result_text, results, exc>>
    /\ UNCHANGED functionVars

\* classify_with_openai up to the model call
Segment ==
    /\ pc = "classify_with_openai"
    /\ IF ~OPENAI_AVAILABLE
       THEN /\ outcome' = ErrorOutcome("OpenAI API not available. Install with: pip install openai")
            /\ pc' = "done"
            /\ clauses' = clauses
       ELSE \E breaks \in (IF NLTK_AVAILABLE
                           THEN SUBSET WhitespaceRuns(RStrip(clean_text(text)))
                           ELSE {{}}) :
              /\ clauses' = split_into_clauses(text, NLTK_AVAILABLE, breaks)
              /\ IF clauses' = <<>>
                 THEN /\ outcome' = ErrorOutcome("No clauses detected")
                      /\ pc' = "done"
                 ELSE /\ outcome' = outcome
                      /\ pc' = "call"
    /\ UNCHANGED <<text, OPENAI_AVAILABLE, NLTK_AVAILABLE, call_status,
                   result_text, results, exc>>
    /\ UNCHANGED functionVars

\* client.chat.completions.create returns a response
ModelCallReturns ==
    /\ pc = "call"
    /\ \E raw \in RawResponses : result_text' = raw
    /\ call_status' = "returned"
    /\ pc' = "interpret"
    /\ UNCHANGED <<text, OPENAI_AVAILABLE, NLTK_AVAILABLE, clauses, results,
                   outcome, exc>>
    /\ UNCHANGED functionVars

\* ModelCallFails with the failure absorbed into the synthetic record
ModelCallFailsAbsorbed ==
    /\ pc = "call"
    /\ call_status' = "failed"
    /\ results' = LegalDocument(text)
    /\ pc' = "calibrate"
    /\ UNCHANGED <<text, OPENAI_AVAILABLE, NLTK_AVAILABLE, clauses,
                   result_text, outcome, exc>>
    /\ UNCHANGED functionVars

\* client.chat.completions.create raises; the except clause logs and
\* re-raises
ModelCallFails ==
    /\ pc = "call"
    /\ call_status' = "failed"
    /\ exc' = "APIError"
    /\ pc' = "raised"
    /\ UNCHANGED <<text, OPENAI_AVAILABLE, NLTK_AVAILABLE, clauses,
                   result_text, results, outcome>>
    /\ UNCHANGED functionVars

\* json.loads and the recovery chain
InterpretResponse ==
    /\ pc = "interpret"
    /\ results' = Interpret(result_text, text)
    /\ pc' = "calibrate"
    /\ UNCHANGED <<text, OPENAI_AVAILABLE, NLTK_AVAILABLE, clauses, call_status,
                   result_text, outcome, exc>>
    /\ UNCHANGED functionVars

\* CalibrateResults with the loop left out after a response that did not
\* parse
CalibrateResultsParsedOnly ==
    /\ pc = "calibrate"
    /\ \E ups \in [Ties(results) -> BOOLEAN] :
         LET cal == IF json_loads(result_text).ok
                    THEN Calibrate(results, ups)
                    ELSE [ok |-> TRUE, results |-> results]
         IN  IF cal.ok
             THEN /\ results' = cal.results
                  /\ pc' = "summarize"
                  /\ exc' = exc
             ELSE /\ results' = results
                  /\ pc' = "raised"
                  /\ exc' = "TypeError"
    /\ UNCHANGED <<text, OPENAI_AVAILABLE, NLTK_AVAILABLE, clauses, call_status,
                   result_text, outcome>>
    /\ UNCHANGED functionVars

\* the calibration loop; a TypeError reaches the outer except clause, which
\* re-raises it
CalibrateResults ==
    /\ pc = "calibrate"
    /\ \E ups \in [Ties(results) -> BOOLEAN] :
         LET cal == Calibrate(results, ups)
         IN  IF cal.ok
             THEN /\ results' = cal.results
                  /\ pc' = "summarize"
                  /\ exc' = exc
             ELSE /\ results' = results
                  /\ pc' = "raised"
                  /\ exc' = "TypeError"
    /\ UNCHANGED <<text, OPENAI_AVAILABLE, NLTK_AVAILABLE, clauses, call_status,
                   result_text, outcome>>
    /\ UNCHANGED functionVars

\* generate_document_summary and the return statement
Return ==
    /\ pc = "summarize"
    /\ IF SummaryRaises(results)
       THEN /\ pc' = "raised"
            /\ exc' = IF results.t = "list"
                         /\ \A i \in 1..Len(results.l) : results.l[i].t = "dict"
                      THEN "TypeError" ELSE "AttributeError"
            /\ outcome' = outcome
       ELSE /\ pc' = "done"
            /\ exc' = exc
            /\ outcome' = ResultOutcome(results,
                                        generate_document_summary(results),
                                        Len(clauses))
    /\ UNCHANGED <<text, OPENAI_AVAILABLE, NLTK_AVAILABLE, clauses, call_status,
                   result_text, results>>
    /\ UNCHANGED functionVars

Next ==
    \/ ClassifyClauses
    \/ Segment
    \/ ModelCallReturns
    \/ ModelCallFails
    \/ InterpretResponse
    \/ CalibrateResults
    \/ Return

Spec == Init /\ [][Next]_vars

(***************************************************************************)
(* One call of generate_document_summary on its own.                       *)
(***************************************************************************)
SummaryInit ==
    /\ gs_results \in SummaryInputs
    /\ gs_pc = "call"
    /\ gs_summary = ""
    /\ PipelineIdle /\ NLTK_AVAILABLE = FALSE
    /\ TextIdle /\ PromptIdle /\ PdfIdle

GenerateDocumentSummary ==
    /\ gs_pc = "call"
    /\ gs_summary' = generate_document_summary(gs_results)
    /\ gs_pc' = "returned"
    /\ UNCHANGED <<gs_results, pipelineVars, textVars, promptVars, pdfVars>>

SummaryNext == GenerateDocumentSummary

SummarySpec == SummaryInit /\ [][SummaryNext]_vars

(***************************************************************************)
(* One call of clean_text or of split_into_clauses on its own.             *)
(***************************************************************************)
TextInit ==
    /\ tp_text \in SegmentTexts
    /\ NLTK_AVAILABLE \in BOOLEAN
    /\ tp_pc = "call"
    /\ tp_breaks = {}
    /\ tp_cleaned = <<>>
    /\ tp_clauses = <<>>
    /\ PipelineIdle /\ SummaryIdle /\ PromptIdle /\ PdfIdle

CleanText ==
    /\ tp_pc = "call"
    /\ tp_cleaned' = clean_text(tp_text)
    /\ tp_pc' = "clean_text"
    /\ UNCHANGED <<tp_text, tp_breaks, tp_clauses, pipelineVars, summaryVars,
                   promptVars, pdfVars>>

\* tp_cleaned is the local text after its first line
SplitIntoClauses ==
    /\ tp_pc = "call"
    /\ tp_cleaned' = clean_text(tp_text)
    /\ \E breaks \in (IF NLTK_AVAILABLE
                      THEN SUBSET WhitespaceRuns(RStrip(clean_text(tp_text)))
                      ELSE {SentenceBreaks(clean_text(tp_text))}) :
         /\ tp_breaks' = breaks
         /\ tp_clauses' = split_into_clauses(tp_text, NLTK_AVAILABLE, breaks)
    /\ tp_pc' = "split_into_clauses"
    /\ UNCHANGED <<tp_text, pipelineVars, summaryVars, promptVars, pdfVars>>

TextNext == CleanText \/ SplitIntoClauses

TextSpec == TextInit /\ [][TextNext]_vars

(***************************************************************************)
(* One call of create_classification_prompt on its own.                    *)
(***************************************************************************)
PromptInit ==
    /\ cp_clauses \in ClauseLists
    /\ cp_clause_types \in CategoryLists
    /\ cp_pc = "call"
    /\ cp_prompt = <<>>
    /\ PipelineIdle /\ NLTK_AVAILABLE = FALSE
    /\ TextIdle /\ SummaryIdle /\ PdfIdle

CreateClassificationPrompt ==
    /\ cp_pc = "call"
    /\ cp_prompt' = create_classification_prompt(cp_clauses, cp_clause_types)
    /\ cp_pc' = "returned"
    /\ UNCHANGED <<cp_clauses, cp_clause_types, pipelineVars, textVars,
                   summaryVars, pdfVars>>

PromptNext == CreateClassificationPrompt

PromptSpec == PromptInit /\ [][PromptNext]_vars

(***************************************************************************)
(* One call of extract_text_from_pdf.                                      *)
(***************************************************************************)
PdfInit ==
    /\ PDF_SUPPORT \in BOOLEAN
    /\ is_file_path \in BOOLEAN
    /\ IF is_file_path
       THEN /\ pdf_data = <<>>
            /\ caller_file \in BOOLEAN
       ELSE /\ pdf_data \in PdfBytes
            /\ caller_file = FALSE
    /\ files = IF caller_file THEN {"caller"} ELSE {}
    /\ temp_path = "unbound"
    /\ pdf_pc = "start"
    /\ pdf_result = Null
    /\ pdf_exc = ""
    /\ PipelineIdle /\ NLTK_AVAILABLE = FALSE
    /\ TextIdle /\ SummaryIdle /\ PromptIdle

\* lines 12-18: the check of PDF_SUPPORT and the branch on is_file_path
BeginExtraction ==
    /\ pdf_pc = "start"
    /\ IF ~PDF_SUPPORT
       THEN /\ pdf_exc' = "ImportError"
            /\ pdf_pc' = "raised"
            /\ temp_path' = temp_path
       ELSE IF is_file_path
       THEN /\ temp_path' = "None"
            /\ pdf_pc' = "extract"
            /\ pdf_exc' = pdf_exc
       ELSE /\ temp_path' = temp_path
            /\ pdf_pc' = "tempfile"
            /\ pdf_exc' = pdf_exc
    /\ UNCHANGED <<PDF_SUPPORT, pdf_data, is_file_path, caller_file, files,
                   pdf_result, pipelineVars, textVars, summaryVars, promptVars>>

\* line 20: NamedTemporaryFile(suffix=".pdf", delete=False) makes the file
CreateTempFile ==
    /\ pdf_pc = "tempfile"
    /\ files' = files \cup {"temp"}
    /\ pdf_pc' = "write"
    /\ UNCHANGED <<PDF_SUPPORT, pdf_data, is_file_path, caller_file, temp_path,
                   pdf_result, pdf_exc, pipelineVars, textVars, summaryVars,
                   promptVars>>

\* line 20 raises (no file is made); lines 49-50 wrap the exception
CreateTempFileFails ==
    /\ pdf_pc = "tempfile"
    /\ pdf_exc' = "Exception"
    /\ pdf_pc' = "raised"
    /\ UNCHANGED <<PDF_SUPPORT, pdf_data, is_file_path, caller_file, files,
                   temp_path, pdf_result, pipelineVars, textVars, summaryVars,
                   promptVars>>

\* lines 21-23: the bytes are written, temp_path is bound, the with block
\* closes the file
WriteBytes ==
    /\ pdf_pc = "write"
    /\ temp_path' = "temp"
    /\ pdf_pc' = "extract"
    /\ UNCHANGED <<PDF_SUPPORT, pdf_data, is_file_path, caller_file, files,
                   pdf_result, pdf_exc, pipelineVars, textVars, summaryVars,
                   promptVars>>

\* line 21 raises: the with block closes the file, which delete=False keeps;
\* the try of line 25 with its finally has not been entered; lines 49-50
\* wrap the exception
WriteFails ==
    /\ pdf_pc = "write"
    /\ pdf_exc' = "Exception"
    /\ pdf_pc' = "raised"
    /\ UNCHANGED <<PDF_SUPPORT, pdf_data, is_file_path, caller_file, files,
                   temp_path, pdf_result, pipelineVars, textVars, summaryVars,
                   promptVars>>

\* lines 46-47: if temp_path and os.path.exists(temp_path): os.unlink(..)
Unlinked ==
    IF temp_path = "temp" /\ "temp" \in files THEN files \ {"temp"} ELSE files

\* lines 26-47: partition_pdf returns elements, the text is returned, the
\* finally clause runs
ExtractReturns ==
    /\ pdf_pc = "extract"
    /\ is_file_path => "caller" \in files
    /\ \E elements \in ElementLists : pdf_result' = ExtractedText(elements)
    /\ files' = Unlinked
    /\ pdf_pc' = "returned"
    /\ UNCHANGED <<PDF_SUPPORT, pdf_data, is_file_path, caller_file, temp_path,
                   pdf_exc, pipelineVars, textVars, summaryVars, promptVars>>

\* lines 26-50: partition_pdf raises, the finally clause runs, lines 49-50
\* wrap the exception
ExtractRaises ==
    /\ pdf_pc = "extract"
    /\ files' = Unlinked
    /\ pdf_exc' = "Exception"
    /\ pdf_pc' = "raised"
    /\ UNCHANGED <<PDF_SUPPORT, pdf_data, is_file_path, caller_file, temp_path,
                   pdf_result, pipelineVars, textVars, summaryVars, promptVars>>

PdfNext ==
    \/ BeginExtraction
    \/ CreateTempFile
    \/ CreateTempFileFails
    \/ WriteBytes
    \/ WriteFails
    \/ ExtractReturns
    \/ ExtractRaises

PdfSpec == PdfInit /\ [][PdfNext]_vars

(***************************************************************************)
(* Properties.                                                             *)
(***************************************************************************)
\* results as the interpretation left it, before the calibration loop
Interpreted == Interpret(result_text, text)

\* the call has got past the interpretation of the response
IsInterpreted ==
    call_status = "returned" /\ pc \in {"calibrate", "summarize", "done"}

\* the calibration loop has run to its end
IsCalibrated == call_status = "returned" /\ pc \in {"summarize", "done"}

\* the records of results that carry a confidence
WithConfidence(res) ==
    IF res.t # "list" THEN {}
    ELSE {i \in 1..Len(res.l) :
            res.l[i].t = "dict" /\ HasKey(res.l[i], "confidence")}

\* the sequence step 1 of the response interpreter chooses for a parsed
\* value: the "results" sequence, the bare sequence, the one-element wrap
\* of an object with clause and label, else the first sequence of objects
Step1Records(parsed) ==
    IF parsed.t = "dict" /\ HasKey(parsed, "results")
       /\ Get(parsed, "results").t = "list"
    THEN Get(parsed, "results").l
    ELSE IF parsed.t = "list" THEN parsed.l
    ELSE IF parsed.t = "dict" /\ HasKey(parsed, "clause") /\ HasKey(parsed, "label")
    THEN <<parsed>>
    ELSE IF parsed.t = "dict" THEN FirstListOfDicts(parsed).l
    ELSE <<>>

\* C1: every returned outcome is either a non-empty results sequence with
\* a document_summary, or an error string with an empty results sequence.
C1_OutcomeShape ==
    pc = "done" =>
        \/ /\ "error" \notin outcome.keys
           /\ "document_summary" \in outcome.keys
           /\ outcome.results.t = "list"
           /\ Len(outcome.results.l) > 0
        \/ /\ "error" \in outcome.keys
           /\ outcome.error # ""
           /\ outcome.results = List(<<>>)

\* C2: once the model call has returned, nothing is raised whatever the
\* raw response holds: the call ends with an outcome that has no error.
C2_NoRaiseOnContent ==
    call_status = "returned" =>
        /\ pc # "raised"
        /\ pc = "done" => "error" \notin outcome.keys

\* C3: when the raw response parses as JSON and step 1 finds zero records
\* in it, results are the "Unclassified Text" placeholders of the input
\* text.
C3_EmptyResultGuard ==
    (IsInterpreted /\ json_loads(result_text).ok
     /\ Step1Records(json_loads(result_text).val) = <<>>)
        => results.t = "list"
           /\ Len(results.l) > 0
           /\ \A i \in 1..Len(results.l) :
                /\ results.l[i].t = "dict"
                /\ HasKey(results.l[i], "label")
                /\ Get(results.l[i], "label") = Str("Unclassified Text")

\* the records of the matches of the fallback pattern, field by field
IsRecordsOfMatches(res, matches) ==
    /\ res.t = "list"
    /\ Len(res.l) = Len(matches)
    /\ \A i \in 1..Len(matches) :
         /\ res.l[i].t = "dict"
         /\ HasKey(res.l[i], "clause") /\ HasKey(res.l[i], "label")
         /\ HasKey(res.l[i], "confidence") /\ HasKey(res.l[i], "summary")
         /\ Get(res.l[i], "clause") = Str(matches[i].clause)
         /\ Get(res.l[i], "label") = Str(matches[i].label)
         /\ Get(res.l[i], "summary") = Str(matches[i].summary)
         /\ Get(res.l[i], "confidence").t = "num"
         /\ FloatParses(matches[i].confidence)
         /\ Get(res.l[i], "confidence").n = UnsignedValue(matches[i].confidence)

\* C4 as stated: a raw response that is no JSON and has matches of the
\* fallback pattern is interpreted as exactly the records of the matches,
\* in their order.
C4_AllMatchesRecovered ==
    (pc = "calibrate" /\ ~json_loads(result_text).ok
     /\ re_findall(result_text) # <<>>)
        => IsRecordsOfMatches(results, re_findall(result_text))

\* C4 amended: the same, for the raw responses in which every matched
\* confidence is a run of digits and dots that float() accepts (at least
\* one digit, at most one dot).
C4_ParsableMatchesRecovered ==
    (pc = "calibrate" /\ ~json_loads(result_text).ok
     /\ re_findall(result_text) # <<>>
     /\ \A i \in 1..Len(re_findall(result_text)) :
          FloatParses(re_findall(result_text)[i].confidence))
        => /\ IsRecordsOfMatches(results, re_findall(result_text))
           /\ \A i \in 1..Len(results.l) :
                Get(results.l[i], "label") # Str("Legal Document")

\* two tuples recovered, in their order, from a response that is prose
\* followed by the tuples
C4_Witness ==
    /\ pc = "calibrate"
    /\ ~json_loads(result_text).ok
    /\ Len(re_findall(result_text)) = 2
    /\ Len(results.l) = 2
    /\ Get(results.l[1], "clause") = Str("c1")
    /\ Get(results.l[2], "clause") = Str("c2")
    /\ Get(results.l[2], "confidence") = Num((12 * Scale) \div 10)

\* C5: a raw response that is no JSON and has no match of the fallback
\* pattern, or a match whose confidence float() rejects, is interpreted as
\* one record labelled "Legal Document" with confidence 0.7 whose clause
\* is the input text, cut to 1000 characters and "..." when it is longer.
C5_LegalDocumentFallback ==
    (IsInterpreted /\ ~json_loads(result_text).ok
     /\ \/ re_findall(result_text) = <<>>
        \/ \E i \in 1..Len(re_findall(result_text)) :
             ~FloatParses(re_findall(result_text)[i].confidence))
        => /\ results.t = "list"
           /\ Len(results.l) = 1
           /\ Get(results.l[1], "label") = Str("Legal Document")
           /\ Get(results.l[1], "confidence") = Num((7 * Scale) \div 10)
           /\ Get(results.l[1], "clause").s = ""
           /\ Get(results.l[1], "clause").c =
                IF Len(text) <= 1000 THEN text
                ELSE SubSeq(text, 1, 1000) \o <<".", ".", ".">>

\* a text of more than 1000 characters, and a match whose confidence
\* float() rejects
C5_Witness ==
    /\ pc = "calibrate"
    /\ Len(text) > 1000
    /\ re_findall(result_text) # <<>>
    /\ Len(Get(results.l[1], "clause").c) = 1003
    /\ Get(results.l[1], "label") = Str("Legal Document")

\* C6: a failed model call is raised to the caller as it is: nothing is
\* returned, no record is made, the response is not interpreted.
C6_FailurePropagates ==
    call_status = "failed" =>
        /\ pc = "raised"
        /\ exc = "APIError"
        /\ outcome = NoOutcome
        /\ results = List(<<>>)
        /\ result_text = <<>>

C6_Witness == call_status = "failed" /\ pc = "raised" /\ Len(clauses) = 2

\* the text is empty or all whitespace, or the segmentation has run and
\* no clause has come out of it
NoUsableText ==
    \/ \A i \in 1..Len(text) : text[i] \in {" ", "\n", "\t"}
    \/ pc \notin {"start", "classify_with_openai"} /\ clauses = <<>>

\* C7: for a text with no usable text the model is never called, and the
\* outcome returned has an error and empty results.
C7_NoUsableText ==
    NoUsableText =>
        /\ call_status = "not called"
        /\ pc \in {"start", "classify_with_openai", "done"}
        /\ pc = "done" =>
             /\ "error" \in outcome.keys
             /\ outcome.error # ""
             /\ outcome.results = List(<<>>)

\* a text that is not blank and has no clause
C7_Witness ==
    /\ pc = "done"
    /\ Strip(text) # <<>>
    /\ OPENAI_AVAILABLE
    /\ clauses = <<>>
    /\ outcome.error = "No clauses detected"

\* C8: after the calibration every confidence is a number of [0, 1] with
\* two decimals: 1.0 for an input above 1, 0.0 for an input below 0, and
\* the nearest hundredth of an input in range.
C8_ConfidenceClamped ==
    IsCalibrated =>
        \A i \in WithConfidence(results) :
            LET c == Get(results.l[i], "confidence")
                v == Get(Interpreted.l[i], "confidence")
            IN  /\ c.t = "num"
                /\ 0 <= c.n /\ c.n <= Scale
                /\ c.n % (Scale \div 100) = 0
                /\ (v.t = "num" /\ v.n > Scale) => c.n = Scale
                /\ (v.t = "num" /\ v.n < 0) => c.n = 0
                /\ (v.t = "num" /\ 0 <= v.n /\ v.n <= Scale) =>
                     /\ 2 * (c.n - v.n) <= Scale \div 100
                     /\ 2 * (v.n - c.n) <= Scale \div 100

\* a confidence below 0 has become 0.0
C8_Witness ==
    /\ pc = "done"
    /\ WithConfidence(outcome.results) # {}
    /\ \E i \in WithConfidence(outcome.results) :
         /\ Get(Interpreted.l[i], "confidence").n < 0
         /\ Get(outcome.results.l[i], "confidence") = Num(0)

\* the band of a value under the inclusive lower bounds 0.9, 0.7, 0.5, 0.3
Band(x) ==
    CASE 10 * x >= 9 * Scale -> "Very High"
      [] 10 * x < 9 * Scale /\ 10 * x >= 7 * Scale -> "High"
      [] 10 * x < 7 * Scale /\ 10 * x >= 5 * Scale -> "Moderate"
      [] 10 * x < 5 * Scale /\ 10 * x >= 3 * Scale -> "Low"
      [] 10 * x < 3 * Scale -> "Very Low"

\* C9 as stated: the level of a record is the band of the confidence
\* value given to the calibrator (checked for the values that are not half
\* way between two hundredths).
C9_LevelOfInput ==
    IsCalibrated =>
        \A i \in WithConfidence(results) :
            (Get(Interpreted.l[i], "confidence").t = "num"
             /\ ~IsTie(Get(Interpreted.l[i], "confidence"))) =>
                Get(results.l[i], "confidence_level") =
                    Str(Band(Get(Interpreted.l[i], "confidence").n))

\* C9 amended: the level of a record is the band of its calibrated
\* confidence, the value clamped to [0, 1] and rounded to two decimals.
C9_LevelOfCalibrated ==
    IsCalibrated =>
        \A i \in WithConfidence(results) :
            /\ HasKey(results.l[i], "confidence_level")
            /\ Get(results.l[i], "confidence_level") =
                   Str(Band(Get(results.l[i], "confidence").n))

\* 0.89999 is rounded to 0.9 and gets the level of 0.9
C9_Witness ==
    /\ pc = "done"
    /\ WithConfidence(outcome.results) = {1}
    /\ Get(Interpreted.l[1], "confidence") = Num(89999)
    /\ Get(outcome.results.l[1], "confidence") = Num(90000)
    /\ Get(outcome.results.l[1], "confidence_level") = Str("Very High")

\* C10: the calibration loop, run on results it has already calibrated,
\* changes nothing; a record with no confidence is as the interpretation
\* left it.
C10_CalibrateIdempotent ==
    IsCalibrated =>
        /\ \A ups \in [Ties(results) -> BOOLEAN] :
             Calibrate(results, ups) = [ok |-> TRUE, results |-> results]
        /\ results.t = "list" =>
             \A i \in (1..Len(results.l)) \ WithConfidence(results) :
                 results.l[i] = Interpreted.l[i]

\* calibrated results with an out-of-range confidence and with a record
\* that has no confidence and no level
C10_Witness ==
    /\ pc = "summarize"
    /\ results.t = "list"
    /\ Len(results.l) = 2
    /\ \E i \in WithConfidence(Interpreted) :
         Get(Interpreted.l[i], "confidence").n > Scale
    /\ \E i \in 1..Len(results.l) :
         /\ ~HasKey(results.l[i], "confidence")
         /\ ~HasKey(results.l[i], "confidence_level")

\* the distinct labels of the records items, a record with no label
\* standing under "Unknown"
LabelsOf(items) == {LabelOf(items[i]) : i \in 1..Len(items)}

\* the position of the first record of items with the label lab
FirstOccurrence(items, lab) ==
    Least({i \in 1..Len(items) : LabelOf(items[i]) = lab})

\* the distinct labels of items in the order of their first occurrences
ByFirstOccurrence(items) ==
    CHOOSE q \in [1..Cardinality(LabelsOf(items)) -> LabelsOf(items)] :
        \A i, j \in DOMAIN q :
            i < j => FirstOccurrence(items, q[i]) < FirstOccurrence(items, q[j])

RECURSIVE SumSeq(_)
SumSeq(q) == IF q = <<>> THEN 0 ELSE Head(q) + SumSeq(Tail(q))

\* C11: generate_document_summary returns "No clauses found to summarize."
\* for an empty sequence; for a non-empty one it returns "This document
\* contains ", then one "{count} {label} clause[s]" item per distinct label
\* in the order of first occurrence, joined by ", ", then a period; count
\* is the number of records with the label (no label counts as "Unknown"),
\* the "s" is there exactly when count > 1, and the counts add up to the
\* number of records.
C11_SummaryFormat ==
    gs_pc = "returned" =>
        IF gs_results.l = <<>>
        THEN gs_summary = "No clauses found to summarize."
        ELSE LET items == gs_results.l
                 labs == ByFirstOccurrence(items)
                 count == [i \in DOMAIN labs |->
                             Cardinality({k \in 1..Len(items) :
                                            LabelOf(items[k]) = labs[i]})]
                 item == [i \in DOMAIN labs |->
                            ToString(count[i]) \o " " \o LabelText(labs[i])
                            \o (IF count[i] > 1 THEN " clauses" ELSE " clause")]
             IN  /\ gs_summary = "This document contains "
                                 \o JoinStrings(item, ", ") \o "."
                 /\ SumSeq(count) = Len(items)
                 /\ \A k \in 1..Len(items) :
                      ~HasKey(items[k], "label") =>
                          \E i \in DOMAIN labs : labs[i] = Str("Unknown")

\* C11 witness: a Termination, a Confidentiality and a second Termination
\* record are summarised label by label, Termination first.
C11_Witness ==
    /\ gs_pc = "returned"
    /\ Len(gs_results.l) = 3
    /\ LabelOf(gs_results.l[1]) = Str("Termination")
    /\ LabelOf(gs_results.l[2]) = Str("Confidentiality")
    /\ LabelOf(gs_results.l[3]) = Str("Termination")
    /\ gs_summary = "This document contains 2 Termination clauses, 1 Confidentiality clause."

RECURSIVE PiecesInOrder(_, _, _)
\* the sequences pieces lie in t from position from on, one after the
\* other and without overlap
PiecesInOrder(pieces, t, from) ==
    IF pieces = <<>> THEN TRUE
    ELSE \E p \in from..(Len(t) - Len(pieces[1]) + 1) :
            /\ SubSeq(t, p, p + Len(pieces[1]) - 1) = pieces[1]
            /\ PiecesInOrder(Tail(pieces), t, p + Len(pieces[1]))

\* C12: split_into_clauses returns only non-empty strings with no
\* whitespace at either end and no semicolon, in the order in which they
\* lie in the (normalized) source; the empty string gives no clause,
\* "a. b." gives one clause per sentence with its period, and "a; b."
\* gives "a" and "b." with no period added and no leading space.
C12_ClausesTrimmedInOrder ==
    tp_pc = "split_into_clauses" =>
        /\ \A i \in 1..Len(tp_clauses) :
             /\ tp_clauses[i] # <<>>
             /\ ~IsSpace(tp_clauses[i][1])
             /\ ~IsSpace(tp_clauses[i][Len(tp_clauses[i])])
             /\ \A k \in 1..Len(tp_clauses[i]) : tp_clauses[i][k] # ";"
        /\ PiecesInOrder(tp_clauses, tp_cleaned, 1)
        /\ tp_text = <<>> => tp_clauses = <<>>
        /\ (tp_text = <<"a", ".", " ", "b", ".">>
            /\ tp_breaks = SentenceBreaks(tp_cleaned))
           => tp_clauses = << <<"a", ".">>, <<"b", ".">> >>
        /\ tp_text = <<"a", ";", " ", "b", ".">>
           => tp_clauses = << <<"a">>, <<"b", ".">> >>

\* C12 witness: two sentences, the second of two fragments, become three
\* clauses in source order.
C12_Witness ==
    /\ tp_pc = "split_into_clauses"
    /\ tp_text = <<"a", ".", " ", "b", ";", "c", ".">>
    /\ tp_clauses = << <<"a", ".">>, <<"b">>, <<"c", ".">> >>

\* how often the character ch stands in t
CountOf(ch, t) == Cardinality({i \in 1..Len(t) : t[i] = ch})

\* C13: clean_text replaces double quotes by single quotes: every double
\* quote of the input is a single quote of the output, and the output
\* holds no double quote.
C13_QuotesReplaced ==
    tp_pc = "clean_text" =>
        /\ \A i \in 1..Len(tp_cleaned) : tp_cleaned[i] # "\""
        /\ CountOf("'", tp_cleaned)
             = CountOf("'", tp_text) + CountOf("\"", tp_text)

\* the sequence piece lies in t
Contains(t, piece) ==
    \E p \in 1..(Len(t) - Len(piece) + 1) :
        SubSeq(t, p, p + Len(piece) - 1) = piece

\* the numbered lines of the clauses q, line after line
RECURSIVE NumberedLines(_, _)
NumberedLines(q, i) ==
    IF i > Len(q) THEN <<>>
    ELSE <<"\n">> \o DecimalOf(i) \o <<".", " ">> \o q[i]
         \o NumberedLines(q, i + 1)

\* C14: the prompt holds the category labels joined by ", " in the given
\* order (for a non-empty category list), and after the "Clauses to
\* classify:" header it holds each clause as a line "{i}. {clause}", i its
\* position counted from 1, the lines in the order of the clauses; the
\* prompt is determined by the two arguments.
C14_PromptContents ==
    cp_pc = "returned" =>
        /\ cp_clause_types # <<>> =>
             Contains(cp_prompt, JoinWith(cp_clause_types, <<",", " ">>))
        /\ \E h \in 1..Len(cp_prompt) :
             /\ cp_prompt[h] = PromptHeader
             /\ SubSeq(cp_prompt, h + 1, Len(cp_prompt))
                  = NumberedLines(cp_clauses, 1)
             /\ \A i \in 1..Len(cp_clauses) :
                  Contains(SubSeq(cp_prompt, h + 1, Len(cp_prompt)),
                           <<"\n">> \o DecimalOf(i) \o <<".", " ">>
                           \o cp_clauses[i])
        /\ cp_prompt = create_classification_prompt(cp_clauses, cp_clause_types)

\* C14 witness: eleven clauses and two categories; the tenth clause stands
\* on the line "10. b." and the categories as "Type A, B".
C14_Witness ==
    /\ cp_pc = "returned"
    /\ Len(cp_clauses) = 11
    /\ cp_clause_types = << <<"T", "y", "p", "e", " ", "A">>, <<"B">> >>
    /\ Contains(cp_prompt, <<"T", "y", "p", "e", " ", "A", ",", " ", "B">>)
    /\ Contains(cp_prompt, <<"\n", "1", "0", ".", " ", "b", ".", "\n", "1", "1", ".", " ", "a">>)

\* one of the four rules of step 1 chooses a sequence for the parsed value
RuleApplies(parsed) ==
    \/ parsed.t = "dict" /\ HasKey(parsed, "results")
       /\ Get(parsed, "results").t = "list"
    \/ parsed.t = "list"
    \/ parsed.t = "dict" /\ HasKey(parsed, "clause") /\ HasKey(parsed, "label")
    \/ parsed.t = "dict" /\ FirstListOfDicts(parsed).l # <<>>

\* C15: for a raw response that parses as JSON the records are chosen by
\* the first rule that applies: (1) the sequence under "results", (2) the
\* bare sequence, (3) the one-element wrap of an object with "clause" and
\* "label", (4) the first value that is a sequence of objects; an object
\* whose "results" value is no sequence goes on to rules 3 and 4.
C15_RuleOrder ==
    (call_status = "returned" /\ pc = "calibrate"
     /\ json_loads(result_text).ok
     /\ RuleApplies(json_loads(result_text).val))
    => results = List(Step1Records(json_loads(result_text).val))

\* the empty-result guard of line 134 is reached and finds no record
GuardFires(parsed) ==
    /\ ~(parsed.t = "dict" /\ HasKey(parsed, "results"))
    /\ parsed.t # "list"
    /\ parsed.t = "dict" =>
         /\ ~(HasKey(parsed, "clause") /\ HasKey(parsed, "label"))
         /\ FirstListOfDicts(parsed).l = <<>>

\* the call has returned a response that parses and makes the guard fire
GuardFired ==
    /\ IsInterpreted
    /\ json_loads(result_text).ok
    /\ GuardFires(json_loads(result_text).val)

\* C16: the placeholder records of the empty-result guard are built from
\* the original input text: for a text longer than 200 characters there
\* are min(3, ceil(L/200)) of them, their clauses the consecutive windows
\* of 200 characters from the start of the text; for a shorter text there
\* is one, its clause the whole text; each has the label "Unclassified
\* Text" and the confidence 0.5, and the level Moderate after calibration.
C16_PlaceholdersFromInput ==
    GuardFired =>
        LET L == Len(text)
            n == IF L > 200
                 THEN (IF (L + 199) \div 200 < 3 THEN (L + 199) \div 200 ELSE 3)
                 ELSE 1
            window(k) ==
                IF L > 200
                THEN SubSeq(text, 200 * (k - 1) + 1,
                            IF 200 * k < L THEN 200 * k ELSE L)
                ELSE text
        IN  /\ results.t = "list"
            /\ Len(results.l) = n
            /\ \A k \in 1..n :
                 /\ Get(results.l[k], "clause") = StrOf(window(k))
                 /\ Get(results.l[k], "label") = Str("Unclassified Text")
                 /\ Get(results.l[k], "confidence") = Num(Scale \div 2)
                 /\ Get(results.l[k], "confidence_level") = Str("Moderate")
            /\ pc = "done" => outcome.results = results

\* C16 witness: a text of 601 characters that the normalizer would change
\* has got three placeholders, the windows 1-200, 201-400 and 401-600.
C16_Witness ==
    /\ GuardFired
    /\ pc = "done"
    /\ text = WindowedText
    /\ clean_text(text) # text
    /\ Len(outcome.results.l) = 3
    /\ Get(outcome.results.l[2], "clause") = StrOf(SubSeq(text, 201, 400))
    /\ Get(outcome.results.l[2], "clause") # Get(outcome.results.l[1], "clause")
    /\ Get(outcome.results.l[3], "confidence_level") = Str("Moderate")

\* C18: in every outcome returned after a successful model call each
\* record with a confidence has the confidence_level of its own calibrated
\* confidence, whatever path made it: the "High" put on the records the
\* regex recovered and a confidence_level the model supplied are
\* overwritten (a confidence of 0.2 ends as "Very Low"), and the synthetic
\* records keep Moderate (0.5) and High (0.7).
C18_LevelOnEveryPath ==
    (pc = "done" /\ call_status = "returned") =>
        /\ \A i \in WithConfidence(outcome.results) :
             LET rec == outcome.results.l[i]
                 before == Interpreted.l[i]
             IN  /\ HasKey(rec, "confidence_level")
                 /\ Get(rec, "confidence_level")
                      = Str(Band(Get(rec, "confidence").n))
                 /\ Get(before, "confidence") = Num((2 * Scale) \div 10)
                      => Get(rec, "confidence_level") = Str("Very Low")
                 /\ (HasKey(before, "label")
                     /\ Get(before, "label") = Str("Unclassified Text"))
                      => /\ Get(rec, "confidence") = Num(Scale \div 2)
                         /\ Get(rec, "confidence_level") = Str("Moderate")
                 /\ (HasKey(before, "label")
                     /\ Get(before, "label") = Str("Legal Document"))
                      => /\ Get(rec, "confidence") = Num((7 * Scale) \div 10)
                         /\ Get(rec, "confidence_level") = Str("High")
        /\ ~json_loads(result_text).ok =>
             WithConfidence(outcome.results) = 1..Len(outcome.results.l)

\* C18 witness: a record the regex recovered with confidence 0.2 and the
\* marker "High" is returned with the level "Very Low".
C18_Witness ==
    /\ pc = "done"
    /\ call_status = "returned"
    /\ ~json_loads(result_text).ok
    /\ Len(outcome.results.l) = 1
    /\ Get(Interpreted.l[1], "confidence") = Num((2 * Scale) \div 10)
    /\ Get(Interpreted.l[1], "confidence_level") = Str("High")
    /\ Get(outcome.results.l[1], "confidence_level") = Str("Very Low")

\* C17: extract_text_from_pdf called with bytes leaves no temporary file
\* behind, whether the write fails, the extraction fails, the text is
\* empty or the extraction succeeds: when it returns or raises, the file
\* it made no longer exists; called with a file path, it never deletes
\* the caller's file.
C17_NoTempFileLeft ==
    pdf_pc \in {"returned", "raised"} =>
        /\ "temp" \notin files
        /\ is_file_path => (("caller" \in files) <=> caller_file)

====
